---- MODULE Spec2Model ----
(***************************************************************************)
(* Model of parse.py: the Grobid batch driver parse_pdfs_directory and the *)
(* retry wrapper grobid_process_fulltext.                                  *)
(*                                                                         *)
(* File names, response bodies and file contents are sequences of          *)
(* one-character strings.  Durations are in milliseconds.  A file is a set *)
(* holding at most one content: {} is "no such file".                      *)
(*                                                                         *)
(* Environment: opening the input PDF may fail (a local file error); the   *)
(* service may refuse the connection, time out, answer with any status and *)
(* any body.  Writes below the output root succeed.                        *)
(***************************************************************************)
EXTENDS Integers, Sequences, FiniteSets, TLC

VARIABLES
    input_dir,      \* names of the entries of input_dir
    GROBID_SLEEP,   \* throttle read from the environment, in ms
    retries,        \* the retries argument of grobid_process_fulltext
    pc,             \* position of the (single) thread of control
    pdf_paths,      \* sorted(input_dir.glob("*.pdf"))
    idx,            \* 1-based position of the current item
    attempt,        \* loop variable of grobid_process_fulltext
    resp,           \* what the last requests.post produced
    exc,            \* type of the exception in flight, "" when none
    fs,             \* output_root: folder name -> [dir, tei, meta]
    fs0,            \* fs as it was when the run started (history)
    errors_parse,   \* list of <<idx, folder_name, repr(e)>>
    error_log,      \* grobid_errors_local.json
    log,            \* history of POSTs and sleeps: <<kind, idx, value>>
    written         \* history: items whose TEI file was written in this run

vars == <<input_dir, GROBID_SLEEP, retries, pc, pdf_paths, idx, attempt, resp,
          exc, fs, fs0, errors_parse, error_log, log, written>>

----------------------------------------------------------------------------
(* Bounds *)

MaxFiles == 2
MaxRetries == 3

(* Program constants *)

DefaultRetries == 3
backoff == 5000
DefaultSleep == 200

----------------------------------------------------------------------------
(* Strings *)

Whitespace == {" ", "\n", "\t"}

RECURSIVE LStrip(_)
LStrip(s) ==
    IF s # <<>> /\ Head(s) \in Whitespace THEN LStrip(Tail(s)) ELSE s

RECURSIVE RStrip(_)
RStrip(s) ==
    IF s # <<>> /\ s[Len(s)] \in Whitespace
    THEN RStrip(SubSeq(s, 1, Len(s) - 1))
    ELSE s

\* str.strip()
Strip(s) == RStrip(LStrip(s))

\* pat in s
Contains(s, pat) ==
    \E i \in 1..(Len(s) - Len(pat) + 1) : SubSeq(s, i, i + Len(pat) - 1) = pat

EndsWith(s, suf) ==
    /\ Len(s) >= Len(suf)
    /\ SubSeq(s, Len(s) - Len(suf) + 1, Len(s)) = suf

\* code points of the characters that occur in file names
Ord(c) ==
    CASE c = "." -> 46
      [] c = "a" -> 97
      [] c = "d" -> 100
      [] c = "f" -> 102
      [] c = "p" -> 112
      [] c = "t" -> 116
      [] c = "x" -> 120

\* str.__lt__: lexicographic by code point, a proper prefix comes first
RECURSIVE StrLess(_, _)
StrLess(a, b) ==
    IF a = <<>> THEN b # <<>>
    ELSE IF b = <<>> THEN FALSE
    ELSE IF Head(a) # Head(b) THEN Ord(Head(a)) < Ord(Head(b))
    ELSE StrLess(Tail(a), Tail(b))

\* sorted(): ascending list of the members of S
RECURSIVE Sorted(_)
Sorted(S) ==
    IF S = {} THEN <<>>
    ELSE LET m == CHOOSE x \in S : \A y \in S \ {x} : StrLess(x, y)
         IN  <<m>> \o Sorted(S \ {m})

\* index of the last "." of name, 0 when there is none (str.rfind + 1)
RDot(name) ==
    LET D == {i \in 1..Len(name) : name[i] = "."}
    IN  IF D = {} THEN 0 ELSE CHOOSE i \in D : \A j \in D : j <= i

\* PurePath.stem: the name without its last suffix; a leading or a trailing
\* dot does not start a suffix
Stem(name) ==
    LET i == RDot(name)
    IN  IF 1 < i /\ i < Len(name) THEN SubSeq(name, 1, i - 1) ELSE name

DotPdf == <<".", "p", "d", "f">>

\* Path.glob("*.pdf"): the entries whose name ends in ".pdf"; names that
\* start with a dot are matched like any other
Glob(dir) == {n \in dir : EndsWith(n, DotPdf)}

----------------------------------------------------------------------------
(* The environment *)

NameUniverse ==
    { <<"a">> \o DotPdf,
      DotPdf,
      DotPdf \o DotPdf,
      <<"a", ".", "t", "x", "t">> }

Folders == {Stem(n) : n \in Glob(NameUniverse)}

TeiTag == <<"<", "T", "E", "I">>

\* bodies the service may answer with
Bodies ==
    { <<>>,
      <<" ", "\n">>,
      <<"x">>,
      <<"<", "T", "E">>,
      <<" ", "<", "T", "E", "I", ">", "\n">>,
      <<"<", "T", "E", "I", ">", "x">> }

StatusCodes == {200, 500}

\* what requests.post does: raise, or return a response
PostOutcomes ==
    [kind : {"raised"}, status : {0}, text : {<<>>},
     error : {"ConnectionError"}]
    \cup
    [kind : {"response"}, status : StatusCodes, text : Bodies, error : {""}]

NoResp == [kind |-> "none", status |-> 0, text |-> <<>>, error |-> ""]

\* variant: every exception is retried
IsRequestException_Broad(type) == TRUE

\* issubclass(type, RequestException)
IsRequestException(type) == type \in {"ConnectionError", "Timeout", "HTTPError"}

\* repr(e)
Repr(type) ==
    CASE type = "ValueError" ->
            "ValueError('Grobid returned empty or non-TEI response')"
      [] type = "OSError" -> "OSError(errno, strerror)"
      [] type = "ConnectionError" -> "ConnectionError(...)"
      [] type = "Timeout" -> "Timeout(...)"
      [] type = "HTTPError" -> "HTTPError('4xx/5xx Error')"

\* contents left by an earlier run
OldTei == <<"<", "T", "E", "I", ">", "o", "l", "d">>
OldMeta == [paper_id |-> <<"o", "l", "d">>, forum |-> <<>>,
            title |-> <<"o", "l", "d">>, pdf_url |-> <<>>,
            source_path |-> <<"o", "l", "d">>]

Absent == [dir |-> FALSE, tei |-> {}, meta |-> {}]

PriorFolder ==
    {Absent} \cup
    ([dir : {TRUE}, tei : {{}, {OldTei}}, meta : {{}, {OldMeta}}]
        \ {[dir |-> TRUE, tei |-> {}, meta |-> {}]})

InputDirStr == <<"p", "d", "f", "s", "/">>

----------------------------------------------------------------------------
(* parse_pdfs_directory: names of the current item *)

pdf_path == pdf_paths[idx]
folder_name == Stem(pdf_path)

safe_title(raw_title) == Strip(raw_title)

Meta(name) ==
    [paper_id |-> Stem(name), forum |-> <<>>, title |-> safe_title(Stem(name)),
     pdf_url |-> <<>>, source_path |-> InputDirStr \o name]

----------------------------------------------------------------------------
(* grobid_process_fulltext *)

\* Response.raise_for_status(): HTTPError for a 4xx or 5xx status
RaisesForStatus(status) == 400 <= status /\ status < 600

\* the sanity check on the stripped body
IsTei(text) == text # <<>> /\ Contains(text, TeiTag)

\* variant: the body is written without the sanity check
TryBlock_Unchecked(can_open, r) ==
    IF ~can_open
    THEN [posted |-> FALSE, exc |-> "OSError", text |-> <<>>]
    ELSE IF r.kind = "raised"
    THEN [posted |-> TRUE, exc |-> r.error, text |-> <<>>]
    ELSE IF RaisesForStatus(r.status)
    THEN [posted |-> TRUE, exc |-> "HTTPError", text |-> <<>>]
    ELSE [posted |-> TRUE, exc |-> "", text |-> Strip(r.text)]

\* One pass through the try block: whether the POST was issued, the
\* exception type that leaves the block ("" when it runs to the return) and
\* the text written to output_xml_path.
TryBlock(can_open, r) ==
    IF ~can_open
    THEN [posted |-> FALSE, exc |-> "OSError", text |-> <<>>]
    ELSE IF r.kind = "raised"
    THEN [posted |-> TRUE, exc |-> r.error, text |-> <<>>]
    ELSE IF RaisesForStatus(r.status)
    THEN [posted |-> TRUE, exc |-> "HTTPError", text |-> <<>>]
    ELSE IF ~IsTei(Strip(r.text))
    THEN [posted |-> TRUE, exc |-> "ValueError", text |-> <<>>]
    ELSE [posted |-> TRUE, exc |-> "", text |-> Strip(r.text)]

\* variant: a constant delay
BackoffDelay_Constant(k) == backoff

\* time.sleep(backoff * attempt)
BackoffDelay(k) == backoff * k

\* variant: the last attempt is not recognised as the last
AfterTry_OffByOne(e) ==
    IF e = "" THEN "throttle"
    ELSE IF IsRequestException(e) /\ attempt <= retries THEN "backoff"
    ELSE "except"

\* where control goes when the try block is left with exception type e
AfterTry(e) ==
    IF e = "" THEN "throttle"
    ELSE IF IsRequestException(e) /\ attempt < retries THEN "backoff"
    ELSE "except"

\* variant: the folder is not created
Mkdir_Skipped(f) == fs

\* Path.mkdir(parents=True, exist_ok=True) on the item's folder
Mkdir(f) == [fs EXCEPT ![f].dir = TRUE]

----------------------------------------------------------------------------
(* Actions *)

\* lines 84-96: enumerate and sort the input files
Start ==
    /\ pc = "start"
    /\ pdf_paths' = Sorted(Glob(input_dir))
    /\ pc' = IF Glob(input_dir) = {} THEN "done" ELSE "loop"
    /\ idx' = 1
    /\ UNCHANGED <<input_dir, GROBID_SLEEP, retries, attempt, resp, exc, fs,
                   fs0, errors_parse, error_log, log, written>>

\* variant: the attempt loop starts at 0
EnterItem_FromZero ==
    /\ pc = "loop"
    /\ idx <= Len(pdf_paths)
    /\ fs' = Mkdir(folder_name)
    /\ attempt' = 1
    /\ pc' = IF 0 <= retries THEN "attempt" ELSE "throttle"
    /\ UNCHANGED <<input_dir, GROBID_SLEEP, retries, pdf_paths, idx, resp, exc, fs0,
                   errors_parse, error_log, log, written>>

\* lines 98-108 and 32-37: take the next item, enter
\* grobid_process_fulltext, create the folder, start the attempt loop
EnterItem ==
    /\ pc = "loop"
    /\ idx <= Len(pdf_paths)
    /\ fs' = Mkdir(folder_name)
    /\ attempt' = 1
    /\ pc' = IF 1 <= retries THEN "attempt" ELSE "throttle"
    /\ UNCHANGED <<input_dir, GROBID_SLEEP, retries, pdf_paths, idx, resp, exc, fs0,
                   errors_parse, error_log, log, written>>

\* lines 38-65: one iteration of the attempt loop up to the sleep
Attempt ==
    /\ pc = "attempt"
    /\ \E can_open \in BOOLEAN, r \in PostOutcomes :
         LET t == TryBlock(can_open, r) IN
         /\ resp' = IF t.posted THEN r ELSE NoResp
         /\ log' = IF t.posted THEN Append(log, <<"post", idx, attempt>>)
                   ELSE log
         /\ exc' = IF AfterTry(t.exc) = "except" THEN t.exc ELSE ""
         /\ fs' = IF t.exc = ""
                  THEN [fs EXCEPT ![folder_name].tei = {t.text}]
                  ELSE fs
         /\ written' = IF t.exc = "" THEN written \cup {idx} ELSE written
         /\ pc' = AfterTry(t.exc)
    /\ UNCHANGED <<input_dir, GROBID_SLEEP, retries, pdf_paths, idx, attempt,
                   fs0, errors_parse, error_log>>

\* lines 62-63 and 37: sleep, then the next attempt
Backoff ==
    /\ pc = "backoff"
    /\ log' = Append(log, <<"sleep", idx, BackoffDelay(attempt)>>)
    /\ attempt' = attempt + 1
    /\ resp' = NoResp
    /\ pc' = "attempt"
    /\ UNCHANGED <<input_dir, GROBID_SLEEP, retries, pdf_paths, idx, exc, fs,
                   fs0, errors_parse, error_log, written>>

\* lines 109-110: the throttle after a call that returned
Throttle ==
    /\ pc = "throttle"
    /\ log' = IF GROBID_SLEEP > 0
              THEN Append(log, <<"sleep", idx, GROBID_SLEEP>>)
              ELSE log
    /\ resp' = NoResp
    /\ pc' = "meta"
    /\ UNCHANGED <<input_dir, GROBID_SLEEP, retries, pdf_paths, idx, attempt,
                   exc, fs, fs0, errors_parse, error_log, written>>

\* variant: meta.json is written without the existence test
WriteMeta_Overwrite ==
    /\ pc = "meta"
    /\ fs' = [fs EXCEPT ![folder_name].dir = TRUE,
                        ![folder_name].meta = {Meta(pdf_path)}]
    /\ idx' = idx + 1
    /\ pc' = "loop"
    /\ UNCHANGED <<input_dir, GROBID_SLEEP, retries, pdf_paths, attempt, resp,
                   exc, fs0, errors_parse, error_log, log, written>>

\* lines 112-122: write meta.json unless it exists
WriteMeta ==
    /\ pc = "meta"
    /\ fs' = IF fs[folder_name].meta = {}
             THEN [fs EXCEPT ![folder_name].dir = TRUE,
                             ![folder_name].meta = {Meta(pdf_path)}]
             ELSE fs
    /\ idx' = idx + 1
    /\ pc' = "loop"
    /\ UNCHANGED <<input_dir, GROBID_SLEEP, retries, pdf_paths, attempt, resp,
                   exc, fs0, errors_parse, error_log, log, written>>

\* lines 123-124: record the failure and go on with the next item
Except ==
    /\ pc = "except"
    /\ errors_parse' = Append(errors_parse, <<idx, folder_name, Repr(exc)>>)
    /\ exc' = ""
    /\ resp' = NoResp
    /\ idx' = idx + 1
    /\ pc' = "loop"
    /\ UNCHANGED <<input_dir, GROBID_SLEEP, retries, pdf_paths, attempt, fs,
                   fs0, error_log, log, written>>

\* variant: the error log is written even when there is no error
Report_Always ==
    /\ pc = "loop"
    /\ idx > Len(pdf_paths)
    /\ error_log' = {[parse_errors |-> errors_parse]}
    /\ pc' = "done"
    /\ UNCHANGED <<input_dir, GROBID_SLEEP, retries, pdf_paths, idx, attempt,
                   resp, exc, fs, fs0, errors_parse, log, written>>

\* lines 126-141: the loop is over; write the error log if there are errors
Report ==
    /\ pc = "loop"
    /\ idx > Len(pdf_paths)
    /\ error_log' = IF errors_parse # <<>>
                    THEN {[parse_errors |-> errors_parse]}
                    ELSE error_log
    /\ pc' = "done"
    /\ UNCHANGED <<input_dir, GROBID_SLEEP, retries, pdf_paths, idx, attempt,
                   resp, exc, fs, fs0, errors_parse, log, written>>

Next ==
    \/ Start
    \/ EnterItem
    \/ Attempt
    \/ Backoff
    \/ Throttle
    \/ WriteMeta
    \/ Except
    \/ Report

----------------------------------------------------------------------------
(* Initial states *)

StaleLog == [parse_errors |-> <<<<1, <<"o", "l", "d">>, Repr("Timeout")>>>>]

\* output roots an earlier run (or the user) may have left: per input PDF
\* no folder, or a folder with a TEI file, a meta.json or both
PriorOutputs(dir) ==
    {f \in [Folders -> PriorFolder] :
        \A d \in Folders :
            d \notin {Stem(n) : n \in Glob(dir)} => f[d] = Absent}

FreshOutput == [d \in Folders |-> Absent]

InitCommon ==
    /\ input_dir \in {d \in SUBSET NameUniverse : Cardinality(d) <= MaxFiles}
    /\ pc = "start"
    /\ pdf_paths = <<>>
    /\ idx = 1
    /\ attempt = 1
    /\ resp = NoResp
    /\ exc = ""
    /\ errors_parse = <<>>
    /\ log = <<>>
    /\ written = {}

\* parse_pdfs_directory as written: retries is the default
Init ==
    /\ retries = DefaultRetries
    /\ GROBID_SLEEP \in {0, DefaultSleep}
    /\ InitCommon
    /\ fs \in PriorOutputs(input_dir)
    /\ fs0 = fs
    /\ error_log \in {{}, {StaleLog}}

Spec == Init /\ [][Next]_vars

\* the loop body around grobid_process_fulltext called with any retries
InitR ==
    /\ retries \in (0 - 1)..MaxRetries
    /\ GROBID_SLEEP = DefaultSleep
    /\ InitCommon
    /\ fs \in PriorOutputs(input_dir)
    /\ fs0 = fs
    /\ error_log = {}

SpecR == InitR /\ [][Next]_vars

\* parse_pdfs_directory on a fresh output root
InitFresh ==
    /\ retries = DefaultRetries
    /\ GROBID_SLEEP \in {0, DefaultSleep}
    /\ InitCommon
    /\ fs = FreshOutput
    /\ fs0 = fs
    /\ error_log = {}

\* the interpreter keeps running the single thread
FairSpec == InitFresh /\ [][Next]_vars /\ WF_vars(Next)

----------------------------------------------------------------------------
(* Vocabulary of the properties *)

Items == 1..Len(pdf_paths)

\* the items whose loop iteration is over
Finished == {i \in Items : i < idx}

PostsOf(i) ==
    Cardinality({k \in 1..Len(log) : log[k][1] = "post" /\ log[k][2] = i})

EntriesOf(i) == {k \in 1..Len(errors_parse) : errors_parse[k][1] = i}

\* the step is an attempt whose POST raised a RequestException
RequestFailureStep ==
    /\ pc = "attempt"
    /\ log' = Append(log, <<"post", idx, attempt>>)
    /\ \/ resp'.kind = "raised"
       \/ resp'.kind = "response" /\ resp'.status >= 400

\* the step is an attempt that failed otherwise: the PDF could not be
\* opened, or the answer was not a TEI document
OtherFailureStep ==
    /\ pc = "attempt"
    /\ \/ log' = log
       \/ /\ resp'.kind = "response"
          /\ resp'.status < 400
          /\ LET t == Strip(resp'.text) IN t = <<>> \/ ~Contains(t, TeiTag)

----------------------------------------------------------------------------
\* C1 (as stated): every input PDF gets at least 1 and at most 3 POST
\* attempts.
C1_Original ==
    \A i \in Finished : 1 <= PostsOf(i) /\ PostsOf(i) <= 3

\* C1 (amended): every input PDF gets at most 3 POST attempts, and at least
\* 1 unless opening the PDF failed before the first POST, in which case the
\* item is recorded with that local file error; and the run eventually
\* reaches the end of its loop with every input PDF attempted.
C1_Safety ==
    \A i \in Finished :
        /\ PostsOf(i) <= 3
        /\ PostsOf(i) = 0 =>
              \E k \in EntriesOf(i) : errors_parse[k][3] = Repr("OSError")

C1_Terminated ==
    /\ pc = "done"
    /\ pdf_paths = Sorted(Glob(input_dir))
    /\ \A i \in Items : PostsOf(i) >= 1 \/ EntriesOf(i) # {}

C1_BoundedRetries == []C1_Safety /\ <>C1_Terminated

C1_Witness ==
    /\ pc = "done"
    /\ Len(pdf_paths) = 2
    /\ PostsOf(1) = 3
    /\ PostsOf(2) = 0

----------------------------------------------------------------------------
\* C2: when attempt k fails with a RequestException and k < retries, the
\* function sleeps exactly backoff * k (5 s, 10 s, ...) and then makes
\* attempt k + 1; when attempt k = retries fails this way there is no sleep
\* and that exception reaches the caller.
C2_Step ==
    /\ RequestFailureStep /\ attempt < retries =>
          /\ pc' = "backoff"
          /\ attempt' = attempt
    /\ pc = "backoff" =>
          /\ log' = Append(log, <<"sleep", idx, 5000 * attempt>>)
          /\ attempt' = attempt + 1
          /\ idx' = idx
          /\ pc' = "attempt"
    /\ RequestFailureStep /\ attempt = retries =>
          /\ pc' = "except"
          /\ exc' = IF resp'.kind = "raised" THEN resp'.error ELSE "HTTPError"
    /\ pc = "except" => log' = log

C2_LinearBackoff == [][C2_Step]_vars

C2_Witness ==
    /\ pc = "except"
    /\ exc = "HTTPError"
    /\ attempt = 3
    /\ retries = 3
    /\ log = << <<"post", 1, 1>>, <<"sleep", 1, 5000>>, <<"post", 1, 2>>,
                <<"sleep", 1, 10000>>, <<"post", 1, 3>> >>

----------------------------------------------------------------------------
\* C3: an attempt that fails with anything other than a RequestException
\* ends the item at once: no further attempt, no backoff sleep; the failure
\* is appended to the error list, the run goes on with the next PDF, and the
\* list is what is written to grobid_errors_local.json.
C3_Step ==
    /\ OtherFailureStep =>
          /\ pc' = "except"
          /\ exc' \in {"ValueError", "OSError"}
    /\ pc = "except" =>
          /\ errors_parse' =
                Append(errors_parse, <<idx, Stem(pdf_paths[idx]), Repr(exc)>>)
          /\ log' = log
          /\ idx' = idx + 1
          /\ pc' = "loop"
    /\ pc = "loop" /\ idx <= Len(pdf_paths) => pc' = "attempt" /\ idx' = idx
    /\ pc = "loop" /\ idx > Len(pdf_paths) /\ errors_parse # <<>> =>
          error_log' = {[parse_errors |-> errors_parse]}

C3_NonNetworkAborts == [][C3_Step]_vars

C3_Witness ==
    /\ pc = "done"
    /\ Len(pdf_paths) = 2
    /\ Len(errors_parse) = 1
    /\ errors_parse[1][1] = 1
    /\ errors_parse[1][3] = Repr("ValueError")
    /\ log = << <<"post", 1, 1>>, <<"post", 2, 1>> >>
    /\ written = {2}
    /\ error_log = {[parse_errors |-> errors_parse]}

----------------------------------------------------------------------------
----------------------------------------------------------------------------
\* C5: at the end every input PDF is accounted for exactly once, as a
\* success (TEI written in this run) or as one entry (idx, folder_name,
\* repr) of errors_parse; successes + errors = total; the entries are in
\* processing order, which is the sorted order of the inputs; and the error
\* log is written in this run iff errors_parse is not empty.
C5_Accounting ==
    pc = "done" =>
        /\ \A i \in Items :
              /\ (i \in written) # (EntriesOf(i) # {})
              /\ Cardinality(EntriesOf(i)) <= 1
        /\ written \subseteq Items
        /\ Cardinality(written) + Len(errors_parse) = Cardinality(Glob(input_dir))
        /\ \A i, j \in Items : i < j => StrLess(pdf_paths[i], pdf_paths[j])
        /\ \A k \in 1..Len(errors_parse) :
              /\ errors_parse[k][1] \in Items
              /\ errors_parse[k][2] = Stem(pdf_paths[errors_parse[k][1]])
              /\ errors_parse[k][3] \in
                    {Repr(t) : t \in {"ValueError", "OSError", "Timeout",
                                      "ConnectionError", "HTTPError"}}
        /\ \A k, l \in 1..Len(errors_parse) :
              k < l => errors_parse[k][1] < errors_parse[l][1]
        /\ (error_log = {[parse_errors |-> errors_parse]}) = (errors_parse # <<>>)
        /\ errors_parse = <<>> => error_log \in {{}, {StaleLog}}

C5_Witness ==
    /\ pc = "done"
    /\ Len(pdf_paths) = 2
    /\ written = {1}
    /\ Len(errors_parse) = 1
    /\ errors_parse[1][1] = 2
    /\ error_log = {[parse_errors |-> errors_parse]}

----------------------------------------------------------------------------
\* C6: items are processed one at a time in sorted order, and when
\* GROBID_SLEEP > 0 a sleep of GROBID_SLEEP lies between the last POST of one
\* item and the first POST of the next, whether the earlier item succeeded
\* or failed.
C6_Original ==
    \A p, q \in 1..Len(log) :
        (/\ p < q
         /\ log[p][1] = "post"
         /\ log[q][1] = "post"
         /\ \A m \in (p + 1)..(q - 1) : log[m][1] # "post") =>
            /\ log[p][2] <= log[q][2]
            /\ (log[p][2] # log[q][2] /\ GROBID_SLEEP > 0) =>
                  \E m \in (p + 1)..(q - 1) :
                     log[m][1] = "sleep" /\ log[m][3] = GROBID_SLEEP

----------------------------------------------------------------------------
\* C7: every item goes to the service whether or not its TEI file exists,
\* and a success replaces the TEI content by the new stripped response; a
\* meta.json that exists is never changed; meta.json is created only when it
\* is absent and only after the Grobid call for that item succeeded.
C7_Step ==
    /\ pc = "loop" /\ idx <= Len(pdf_paths) => pc' = "attempt"
    /\ pc = "attempt" /\ pc' = "throttle" =>
          /\ log' = Append(log, <<"post", idx, attempt>>)
          /\ fs'[Stem(pdf_paths[idx])].tei = {Strip(resp'.text)}
    /\ \A f \in Folders :
          /\ fs[f].meta # {} => fs'[f].meta = fs[f].meta
          /\ fs[f].meta = {} /\ fs'[f].meta # {} =>
                /\ pc = "meta"
                /\ f = Stem(pdf_paths[idx])
                /\ idx \in written
                /\ fs'[f].meta = {Meta(pdf_paths[idx])}

----------------------------------------------------------------------------
\* C8: with retries >= 1 the function returns normally only after an
\* attempt whose response had a success status and a stripped body that is
\* non-empty and contains "<TEI", having written exactly that stripped body;
\* otherwise it raises and writes nothing, so a failing item leaves the TEI
\* file and meta.json as they were.
C8_Step ==
    retries >= 1 =>
        /\ pc # "throttle" /\ pc' = "throttle" =>
              /\ pc = "attempt"
              /\ resp'.kind = "response"
              /\ resp'.status < 400
              /\ LET t == Strip(resp'.text) IN
                 /\ t # <<>>
                 /\ t[1] \notin Whitespace
                 /\ t[Len(t)] \notin Whitespace
                 /\ Contains(t, <<"<", "T", "E", "I">>)
                 /\ fs'[Stem(pdf_paths[idx])].tei = {t}
        /\ \A f \in Folders :
              /\ fs'[f].tei # fs[f].tei => pc = "attempt" /\ pc' = "throttle"
              /\ fs'[f].meta # fs[f].meta => pc = "meta"
        /\ pc \in {"throttle", "meta"} => pc' # "except"
        /\ pc = "loop" /\ idx <= Len(pdf_paths) => pc' = "attempt"

C8_ReturnMeansTeiWritten == [][C8_Step]_vars

C8_Witness ==
    /\ pc = "done"
    /\ retries >= 1
    /\ Len(pdf_paths) = 2
    /\ written = {1}
    /\ fs[Stem(pdf_paths[1])].tei = {<<"<", "T", "E", "I", ">">>}
    /\ EntriesOf(2) # {}
    /\ fs0[Stem(pdf_paths[2])].tei = {OldTei}
    /\ fs0[Stem(pdf_paths[2])].meta = {OldMeta}
    /\ fs[Stem(pdf_paths[2])] = fs0[Stem(pdf_paths[2])]

----------------------------------------------------------------------------
\* C9: with retries <= 0 the function makes no HTTP call, writes no TEI file
\* and returns normally, having only created the folder; the loop body then
\* counts the item as a success and meta.json is written (where absent)
\* though no TEI document was produced.
C9_NoAttempts ==
    retries <= 0 =>
        /\ pc \notin {"attempt", "backoff", "except"}
        /\ \A k \in 1..Len(log) : log[k][1] # "post"
        /\ written = {}
        /\ errors_parse = <<>>
        /\ \A f \in Folders : fs[f].tei = fs0[f].tei
        /\ pc \in {"throttle", "meta"} =>
              fs[Stem(pdf_paths[idx])].dir
        /\ \A i \in Finished :
              LET f == Stem(pdf_paths[i]) IN
              /\ fs[f].dir
              /\ fs[f].meta # {}
              /\ fs0[f].meta # {} => fs[f].meta = fs0[f].meta
              /\ fs0[f].meta = {} =>
                    \E j \in Finished : fs[f].meta = {Meta(pdf_paths[j])}

C9_Witness ==
    /\ retries <= 0
    /\ pc = "done"
    /\ Len(pdf_paths) = 1
    /\ fs0[Stem(pdf_paths[1])] = Absent
    /\ fs[Stem(pdf_paths[1])] =
          [dir |-> TRUE, tei |-> {}, meta |-> {Meta(pdf_paths[1])}]
    /\ error_log = {}

====
